---- MODULE Spec2Model ----
(***************************************************************************)
(* Model of ceasiompy/SU2Run/su2run.py: the orchestration of the external  *)
(* SU2 executables (run_SU2_single, run_SU2_multi, run_SU2_fsi) and the    *)
(* command-line entry point.  Every statement of the three functions that  *)
(* is observable from outside (chdir, config read/write, run_soft call and *)
(* return, raise, return) is one step; `trace` records what was done.      *)
(***************************************************************************)
EXTENDS Integers, Sequences, FiniteSets, TLC

VARIABLES
    entry,          \* who is running: "__main__" or the function called directly
    argv,           \* sys.argv (argv[1] is the program name, Arg(k) is sys.argv[k])
    pc,             \* position in the code
    exc,            \* the exception that ended the run ("" when none)
    todo,           \* phases the entry point still has to call
    wkdir,          \* working directory argument
    config_path,    \* configuration path argument
    exists,         \* os.path.exists(wkdir)
    listing,        \* os.listdir(wkdir), in the order the OS gives it
    dirFiles,       \* os.listdir of every entry of wkdir
    cfgFiles,       \* the configuration files on disk, by path
    cwd,            \* current directory of the process
    original_dir,   \* local of the three functions
    case_dir_list,  \* local of run_SU2_multi
    idx,            \* position of the for loop of run_SU2_multi in case_dir_list
    config_dir,     \* local of run_SU2_multi
    find,           \* the four find_config_* flags of run_SU2_multi
    running,        \* the run_soft call in flight (and where it returns to)
    lastStatus,     \* exit status of the last executable that returned
    failed,         \* some executable exited with a non-zero status
    retval,         \* what the called function returned ("" while it has not)
    cfgFiles0,      \* the configuration files on disk when the run began
    trace           \* everything done so far, in order

vars == <<entry, argv, pc, exc, todo, wkdir, config_path, exists, listing,
          dirFiles, cfgFiles, cwd, original_dir, case_dir_list, idx,
          config_dir, find, running, lastStatus, failed, retval, cfgFiles0,
          trace>>

args == <<entry, argv>>
params == <<wkdir, config_path>>
tree == <<exists, listing, dirFiles>>
locals == <<original_dir, case_dir_list, idx, config_dir, find>>
soft == <<running, lastStatus, failed>>

(***************************************************************************)
(* Bounds of the model.                                                    *)
(***************************************************************************)
MaxEntries == 2     \* entries of the working directory

(***************************************************************************)
(* Names, paths and directory listings.  A directory entry name is a       *)
(* sequence of characters, so that 'Case' in dir is a real substring test. *)
(***************************************************************************)
CaseMarker == <<"C", "a", "s", "e">>

Contains(sub, s) ==
    \E i \in 1..(Len(s) - Len(sub) + 1) : SubSeq(s, i, i + Len(sub) - 1) = sub

Case0 == <<"C", "a", "s", "e", "0">>
XCase == <<"x", "C", "a", "s", "e">>
LowerCase == <<"c", "a", "s", "e">>
EntryNames == {Case0, XCase, LowerCase}

OptC == <<"-", "c">>
OptS == <<"-", "s">>
OptM == <<"-", "m">>
OptF == <<"-", "f">>
OptR == <<"-", "r">>
OptX == <<"-", "x">>
ProgName == <<"s", "u", "2", "r", "u", "n">>
ArgDir == <<"w", "k">>

MODULE_DIR == << <<"m", "o", "d">> >>
StartDir == << <<"h", "o", "m", "e">> >>
ApiWkDir == << <<"t", "m", "p">>, <<"w", "k">> >>
NewWkDir == << <<"m", "o", "d">>, <<"n", "e", "w">> >>
NoDir == << >>

JoinDir(d, name) == Append(d, name)
JoinFile(d, file) == [dir |-> d, file |-> file]
NoPath == [dir |-> NoDir, file |-> ""]
ExtCfg == JoinFile(StartDir, "input.cfg")

CFD_CFG == "ConfigCFD.cfg"
DEF_CFG == "ConfigDEF.cfg"
ROT_CFG == "ConfigDEF_rot.cfg"
ROT_SYM_CFG == "ConfigDEF_rot_sym.cfg"
ConfigNames == {CFD_CFG, DEF_CFG, ROT_CFG, ROT_SYM_CFG}
OtherFiles == {"mesh.su2", "configCFD.cfg", "ConfigCFD.cfg.bak"}

Range(s) == {s[i] : i \in 1..Len(s)}

Listings ==
    {l \in UNION {[1..n -> EntryNames] : n \in 0..MaxEntries} :
        \A i, j \in 1..Len(l) : i # j => l[i] # l[j]}

FileSets(name) ==
    IF Contains(CaseMarker, name)
    THEN {s \cup OtherFiles : s \in SUBSET ConfigNames}
    ELSE {{CFD_CFG, DEF_CFG}}

EmptyTree == [listing |-> << >>, files |-> [n \in EntryNames |-> {}]]

AllFileSets == UNION {FileSets(n) : n \in EntryNames} \cup {{}}

Trees ==
    UNION {{[listing |-> l, files |-> f] :
                f \in {g \in [EntryNames -> AllFileSets] :
                          \A n \in EntryNames :
                              g[n] \in (IF n \in Range(l) THEN FileSets(n) ELSE {{}})}} :
           l \in Listings}

(***************************************************************************)
(* Configuration files.  In memory a configuration is a dictionary from    *)
(* key to value; a value has a Python type and its text.  The file holds   *)
(* only the text of each value.                                            *)
(***************************************************************************)
Val(t, s) == [t |-> t, s |-> s]

Put(d, k, v) == [x \in (DOMAIN d) \cup {k} |-> IF x = k THEN v ELSE d[x]]

NoFile == [present |-> FALSE, kv |-> << >>]
File(kv) == [present |-> TRUE, kv |-> kv]

read_config(files, path) ==
    [k \in DOMAIN files[path].kv |-> Val("str", files[path].kv[k])]

write_config(files, path, cfg) ==
    [files EXCEPT ![path] = File([k \in DOMAIN cfg |-> cfg[k].s])]

CfgA == ("MESH_FILENAME" :> <<"mesh.su2">>) @@ ("MACH_NUMBER" :> <<"0.78">>)
CfgB == CfgA @@ ("DV_KIND" :> <<"FFD_SETTING">>) @@ ("DV_VALUE" :> <<"1.0">>)
CfgC == ("MACH_NUMBER" :> <<"0.3">>)
InputCfgs == {CfgA, CfgB, CfgC}
StaleCfg == ("MESH_FILENAME" :> <<"old.su2">>) @@ ("DV_MARKER" :> <<"Tail">>)

WkDirs == {ApiWkDir, JoinDir(MODULE_DIR, ArgDir), NewWkDir}
CfgPaths == {ExtCfg} \cup {JoinFile(d, n) : d \in WkDirs, n \in {CFD_CFG, DEF_CFG}}
NoCfgFiles == [p \in CfgPaths |-> NoFile]

(***************************************************************************)
(* The trace of observable events.                                         *)
(***************************************************************************)
Ev(ev, what, cfg, wd) == [ev |-> ev, what |-> what, cfg |-> cfg, wd |-> wd]

Idle == [soft |-> "", retpc |-> ""]
NoFind == [cfd |-> FALSE, def |-> FALSE, rot |-> FALSE, rot_sym |-> FALSE]
ExitCodes == {0, 1}

Arg(k) == argv[k + 1]

Opts == {OptC, OptS, OptM, OptF, OptR, OptX}
ArgvSet ==
    {<<ProgName>>} \cup {<<ProgName, o>> : o \in Opts}
                   \cup {<<ProgName, o, ArgDir>> : o \in Opts}

ScriptWkDir == JoinDir(MODULE_DIR, ArgDir)

(***************************************************************************)
(* Initial states: the entry point with its command line, or one of the    *)
(* three functions called directly with its arguments, on a disk that may  *)
(* or may not hold the working directory.                                  *)
(***************************************************************************)
Init ==
    /\ entry \in {"__main__", "run_SU2_single", "run_SU2_multi", "run_SU2_fsi"}
    /\ argv \in (IF entry = "__main__" THEN ArgvSet ELSE {<< >>})
    /\ wkdir = (IF entry = "__main__" THEN NoDir ELSE ApiWkDir)
    /\ config_path \in
         (CASE entry = "run_SU2_single" -> {ExtCfg, JoinFile(ApiWkDir, CFD_CFG)}
            [] entry = "run_SU2_fsi" ->
                 {ExtCfg, JoinFile(ApiWkDir, CFD_CFG), JoinFile(ApiWkDir, DEF_CFG)}
            [] OTHER -> {NoPath})
    /\ exists \in BOOLEAN
    /\ \E t \in (IF exists /\ (entry = "run_SU2_multi"
                               \/ (entry = "__main__" /\ Len(argv) > 2 /\ Arg(1) = OptM))
                 THEN Trees ELSE {EmptyTree}) :
          /\ listing = t.listing
          /\ dirFiles = t.files
    /\ LET fsi == exists /\ (entry = "run_SU2_fsi"
                             \/ (entry = "__main__" /\ Len(argv) > 2 /\ Arg(1) = OptF))
           wd == IF entry = "__main__" THEN ScriptWkDir ELSE ApiWkDir
           cp == IF entry = "__main__" THEN JoinFile(ScriptWkDir, CFD_CFG) ELSE config_path
       IN  IF fsi
           THEN \E c \in InputCfgs, stale \in BOOLEAN :
                  cfgFiles = [p \in CfgPaths |->
                                IF p = cp THEN File(c)
                                ELSE IF stale /\ p.dir = wd THEN File(StaleCfg)
                                ELSE NoFile]
           ELSE cfgFiles = NoCfgFiles
    /\ cfgFiles0 = cfgFiles
    /\ pc = (CASE entry = "__main__" -> "main"
               [] entry = "run_SU2_single" -> "single_check"
               [] entry = "run_SU2_multi" -> "multi_check"
               [] entry = "run_SU2_fsi" -> "fsi_check")
    /\ trace = (IF entry = "__main__" THEN << >>
                ELSE <<Ev("call", entry, config_path, wkdir)>>)
    /\ exc = ""
    /\ todo = << >>
    /\ cwd = StartDir
    /\ original_dir = NoDir
    /\ case_dir_list = << >>
    /\ idx = 0
    /\ config_dir = NoDir
    /\ find = NoFind
    /\ running = Idle
    /\ lastStatus = 0
    /\ failed = FALSE
    /\ retval = ""

(***************************************************************************)
(* Building blocks: raise, return, and su2f.run_soft.                      *)
(***************************************************************************)
Raise(e) ==
    /\ pc' = "raised"
    /\ exc' = e

\* The function returns None to its caller.
Return(fn) ==
    /\ pc' = (IF entry = "__main__" THEN "main_next" ELSE "done")
    /\ retval' = "None"
    /\ trace' = Append(trace, Ev("return", fn, NoPath, wkdir))

\* su2f.run_soft(soft, config_path, wkdir) is entered: the executable starts.
run_soft(software, cfg, wd, retpc) ==
    /\ pc' = "run_soft"
    /\ running' = [soft |-> software, retpc |-> retpc]
    /\ trace' = Append(trace, Ev("start", software, cfg, wd))
    /\ UNCHANGED <<lastStatus, failed>>

\* The executable exits with some status and run_soft returns it.
RunSoftReturn ==
    /\ pc = "run_soft"
    /\ \E st \in ExitCodes :
          /\ lastStatus' = st
          /\ failed' = (failed \/ st # 0)
    /\ trace' = Append(trace, Ev("exit", running.soft, NoPath, NoDir))
    /\ pc' = running.retpc
    /\ running' = Idle
    /\ UNCHANGED <<args, params, tree, locals, exc, todo, cfgFiles, cfgFiles0,
                   cwd, retval>>

(***************************************************************************)
(* run_SU2_single(config_path, wkdir)                                      *)
(***************************************************************************)
SingleCheck ==
    /\ pc = "single_check"
    /\ IF ~exists
       THEN /\ Raise("OSError")
            /\ UNCHANGED <<original_dir, cwd>>
       ELSE /\ original_dir' = cwd
            /\ cwd' = wkdir
            /\ pc' = "single_cfd"
            /\ exc' = exc
    /\ UNCHANGED <<args, params, tree, case_dir_list, idx, config_dir, find,
                   soft, todo, cfgFiles, cfgFiles0, retval, trace>>

SingleRunCFD ==
    /\ pc = "single_cfd"
    /\ run_soft("SU2_CFD", config_path, wkdir, "single_sol")
    /\ UNCHANGED <<args, params, tree, locals, exc, todo, cfgFiles, cfgFiles0,
                   cwd, retval>>

\* Faulty variant: the second call repeats SU2_CFD instead of running SU2_SOL.
SingleRunSOL_RepeatsCFD ==
    /\ pc = "single_sol"
    /\ run_soft("SU2_CFD", config_path, wkdir, "single_end")
    /\ UNCHANGED <<args, params, tree, locals, exc, todo, cfgFiles, cfgFiles0,
                   cwd, retval>>

SingleRunSOL ==
    /\ pc = "single_sol"
    /\ run_soft("SU2_SOL", config_path, wkdir, "single_end")
    /\ UNCHANGED <<args, params, tree, locals, exc, todo, cfgFiles, cfgFiles0,
                   cwd, retval>>

SingleReturn ==
    /\ pc = "single_end"
    /\ cwd' = original_dir
    /\ Return("run_SU2_single")
    /\ UNCHANGED <<args, params, tree, locals, soft, exc, todo, cfgFiles,
                   cfgFiles0>>

(***************************************************************************)
(* run_SU2_multi(wkdir)                                                    *)
(***************************************************************************)
MultiCheck ==
    /\ pc = "multi_check"
    /\ IF ~exists
       THEN /\ Raise("OSError")
            /\ UNCHANGED <<original_dir, cwd>>
       ELSE /\ original_dir' = cwd
            /\ cwd' = wkdir
            /\ pc' = "multi_list"
            /\ exc' = exc
    /\ UNCHANGED <<args, params, tree, case_dir_list, idx, config_dir, find,
                   soft, todo, cfgFiles, cfgFiles0, retval, trace>>

IsCaseDir(dir) == Contains(CaseMarker, dir)

\* Faulty variant: the empty case list is not rejected.
MultiList_NoEmptyCheck ==
    /\ pc = "multi_list"
    /\ case_dir_list' = SelectSeq(listing, IsCaseDir)
    /\ pc' = "multi_loop"
    /\ idx' = 1
    /\ UNCHANGED <<args, params, tree, original_dir, config_dir, find, soft,
                   exc, todo, cfgFiles, cfgFiles0, cwd, retval, trace>>

\* case_dir_list = [dir for dir in os.listdir(wkdir) if 'Case' in dir]
MultiList ==
    /\ pc = "multi_list"
    /\ LET l == SelectSeq(listing, IsCaseDir)
       IN  /\ case_dir_list' = l
           /\ IF l = << >>
              THEN /\ Raise("OSError")
                   /\ idx' = idx
              ELSE /\ pc' = "multi_loop"
                   /\ idx' = 1
                   /\ exc' = exc
    /\ UNCHANGED <<args, params, tree, original_dir, config_dir, find, soft,
                   todo, cfgFiles, cfgFiles0, cwd, retval, trace>>

\* The scan of os.listdir(config_dir).  A directory listing holds every name
\* once, so no "More than one" branch is taken and each flag is membership.
ScanDir(files) ==
    [cfd |-> CFD_CFG \in files,
     def |-> DEF_CFG \in files,
     rot |-> ROT_CFG \in files,
     rot_sym |-> ROT_SYM_CFG \in files]

MultiScan ==
    /\ pc = "multi_loop"
    /\ idx <= Len(case_dir_list)
    /\ LET dir == case_dir_list[idx]
       IN  /\ config_dir' = JoinDir(wkdir, dir)
           /\ cwd' = JoinDir(wkdir, dir)
           /\ find' = ScanDir(dirFiles[dir])
    /\ pc' = "multi_def"
    /\ UNCHANGED <<args, params, tree, original_dir, case_dir_list, idx, soft,
                   exc, todo, cfgFiles, cfgFiles0, retval, trace>>

MultiRunDEF ==
    /\ pc = "multi_def"
    /\ IF find.def
       THEN run_soft("SU2_DEF", JoinFile(config_dir, DEF_CFG), config_dir, "multi_rot")
       ELSE /\ pc' = "multi_rot"
            /\ UNCHANGED <<soft, trace>>
    /\ UNCHANGED <<args, params, tree, locals, exc, todo, cfgFiles, cfgFiles0,
                   cwd, retval>>

\* Faulty variant: SU2_DEF for ConfigDEF_rot.cfg is given ConfigDEF.cfg.
MultiRunROT_WrongPath ==
    /\ pc = "multi_rot"
    /\ IF find.rot
       THEN run_soft("SU2_DEF", JoinFile(config_dir, DEF_CFG), config_dir, "multi_rot_sym")
       ELSE /\ pc' = "multi_rot_sym"
            /\ UNCHANGED <<soft, trace>>
    /\ UNCHANGED <<args, params, tree, locals, exc, todo, cfgFiles, cfgFiles0,
                   cwd, retval>>

MultiRunROT ==
    /\ pc = "multi_rot"
    /\ IF find.rot
       THEN run_soft("SU2_DEF", JoinFile(config_dir, ROT_CFG), config_dir, "multi_rot_sym")
       ELSE /\ pc' = "multi_rot_sym"
            /\ UNCHANGED <<soft, trace>>
    /\ UNCHANGED <<args, params, tree, locals, exc, todo, cfgFiles, cfgFiles0,
                   cwd, retval>>

MultiRunROTSYM ==
    /\ pc = "multi_rot_sym"
    /\ IF find.rot_sym
       THEN run_soft("SU2_DEF", JoinFile(config_dir, ROT_SYM_CFG), config_dir, "multi_cfd")
       ELSE /\ pc' = "multi_cfd"
            /\ UNCHANGED <<soft, trace>>
    /\ UNCHANGED <<args, params, tree, locals, exc, todo, cfgFiles, cfgFiles0,
                   cwd, retval>>

\* Faulty variant: a case without ConfigCFD.cfg is skipped instead of raising.
MultiRunCFD_SkipMissing ==
    /\ pc = "multi_cfd"
    /\ IF ~find.cfd
       THEN /\ pc' = "multi_next"
            /\ UNCHANGED <<soft, trace>>
       ELSE run_soft("SU2_CFD", JoinFile(config_dir, CFD_CFG), config_dir, "multi_next")
    /\ UNCHANGED <<args, params, tree, locals, exc, todo, cfgFiles, cfgFiles0,
                   cwd, retval>>

\* Only SU2_CFD is run for the case: the SU2_SOL call is commented out.
MultiRunCFD ==
    /\ pc = "multi_cfd"
    /\ IF ~find.cfd
       THEN /\ Raise("ValueError")
            /\ UNCHANGED <<soft, trace>>
       ELSE /\ run_soft("SU2_CFD", JoinFile(config_dir, CFD_CFG), config_dir, "multi_next")
            /\ exc' = exc
    /\ UNCHANGED <<args, params, tree, locals, todo, cfgFiles, cfgFiles0, cwd,
                   retval>>

MultiNext ==
    /\ pc = "multi_next"
    /\ cwd' = wkdir
    /\ idx' = idx + 1
    /\ pc' = "multi_loop"
    /\ UNCHANGED <<args, params, tree, original_dir, case_dir_list, config_dir,
                   find, soft, exc, todo, cfgFiles, cfgFiles0, retval, trace>>

\* The loop is exhausted; the function ends without restoring original_dir.
MultiReturn ==
    /\ pc = "multi_loop"
    /\ idx > Len(case_dir_list)
    /\ Return("run_SU2_multi")
    /\ UNCHANGED <<args, params, tree, locals, soft, exc, todo, cfgFiles,
                   cfgFiles0, cwd>>

(***************************************************************************)
(* run_SU2_fsi(config_path, wkdir)                                         *)
(***************************************************************************)
FsiCheck ==
    /\ pc = "fsi_check"
    /\ IF ~exists
       THEN /\ Raise("OSError")
            /\ UNCHANGED <<original_dir, cwd>>
       ELSE /\ original_dir' = cwd
            /\ cwd' = wkdir
            /\ pc' = "fsi_write_def"
            /\ exc' = exc
    /\ UNCHANGED <<args, params, tree, case_dir_list, idx, config_dir, find,
                   soft, todo, cfgFiles, cfgFiles0, retval, trace>>

DefOverrides(cfg) ==
    LET c1 == Put(cfg, "DV_KIND", Val("str", <<"SURFACE_FILE">>))
        c2 == Put(c1, "DV_MARKER", Val("str", <<"Wing">>))
        c3 == Put(c2, "DV_FILENAME", Val("str", <<"disp.dat">>))
        c4 == Put(c3, "DV_PARAM",
                  Val("list", <<"WING", "0", "0", "1", "0.0", "0.0", "1.0">>))
    IN  Put(c4, "DV_VALUE", Val("float", <<"0.01">>))

CfdOverrides(cfg) == Put(cfg, "MESH_FILENAME", Val("str", <<"mesh_out.su2">>))

FsiWriteDEF ==
    /\ pc = "fsi_write_def"
    /\ LET config_def_path == JoinFile(wkdir, DEF_CFG)
           cfg_def == DefOverrides(read_config(cfgFiles, config_path))
       IN  /\ cfgFiles' = write_config(cfgFiles, config_def_path, cfg_def)
           /\ trace' = Append(trace, Ev("write", DEF_CFG, config_def_path, wkdir))
    /\ pc' = "fsi_write_cfd"
    /\ UNCHANGED <<args, params, tree, locals, soft, exc, todo, cfgFiles0, cwd,
                   retval>>

FsiWriteCFD ==
    /\ pc = "fsi_write_cfd"
    /\ LET config_cfd_path == JoinFile(wkdir, CFD_CFG)
           cfg_cfd == CfdOverrides(read_config(cfgFiles, config_path))
       IN  /\ cfgFiles' = write_config(cfgFiles, config_cfd_path, cfg_cfd)
           /\ trace' = Append(trace, Ev("write", CFD_CFG, config_cfd_path, wkdir))
    /\ pc' = "fsi_def"
    /\ UNCHANGED <<args, params, tree, locals, soft, exc, todo, cfgFiles0, cwd,
                   retval>>

FsiRunDEF ==
    /\ pc = "fsi_def"
    /\ run_soft("SU2_DEF", JoinFile(wkdir, DEF_CFG), wkdir, "fsi_cfd")
    /\ UNCHANGED <<args, params, tree, locals, exc, todo, cfgFiles, cfgFiles0,
                   cwd, retval>>

\* Faulty variant: SU2_CFD is given the input configuration, not ConfigCFD.cfg.
FsiRunCFD_InputConfig ==
    /\ pc = "fsi_cfd"
    /\ run_soft("SU2_CFD", config_path, wkdir, "fsi_sol")
    /\ UNCHANGED <<args, params, tree, locals, exc, todo, cfgFiles, cfgFiles0,
                   cwd, retval>>

FsiRunCFD ==
    /\ pc = "fsi_cfd"
    /\ run_soft("SU2_CFD", JoinFile(wkdir, CFD_CFG), wkdir, "fsi_sol")
    /\ UNCHANGED <<args, params, tree, locals, exc, todo, cfgFiles, cfgFiles0,
                   cwd, retval>>

FsiRunSOL ==
    /\ pc = "fsi_sol"
    /\ run_soft("SU2_SOL", JoinFile(wkdir, CFD_CFG), wkdir, "fsi_loads")
    /\ UNCHANGED <<args, params, tree, locals, exc, todo, cfgFiles, cfgFiles0,
                   cwd, retval>>

FsiExtractLoads ==
    /\ pc = "fsi_loads"
    /\ trace' = Append(trace, Ev("call", "extract_loads", NoPath, wkdir))
    /\ pc' = "fsi_end"
    /\ UNCHANGED <<args, params, tree, locals, soft, exc, todo, cfgFiles,
                   cfgFiles0, cwd, retval>>

FsiReturn ==
    /\ pc = "fsi_end"
    /\ cwd' = original_dir
    /\ Return("run_SU2_fsi")
    /\ UNCHANGED <<args, params, tree, locals, soft, exc, todo, cfgFiles,
                   cfgFiles0>>

(***************************************************************************)
(* The command-line entry point (if __name__ == '__main__').               *)
(***************************************************************************)
\* An option that takes the working directory from sys.argv[2].
DispatchWithDir(phase) ==
    IF Len(argv) <= 2
    THEN /\ Raise("IndexError")
         /\ UNCHANGED <<wkdir, config_path, todo>>
    ELSE /\ wkdir' = JoinDir(MODULE_DIR, Arg(2))
         /\ config_path' = (IF phase \in {"run_SU2_single", "run_SU2_fsi"}
                            THEN JoinFile(JoinDir(MODULE_DIR, Arg(2)), CFD_CFG)
                            ELSE config_path)
         /\ todo' = <<phase>>
         /\ pc' = "main_next"
         /\ exc' = exc

\* An option that takes the working directory from get_wkdir_or_create_new.
DispatchNewDir(phases) ==
    /\ wkdir' = NewWkDir
    /\ exists' = TRUE
    /\ todo' = phases
    /\ pc' = "main_next"

\* Faulty variant: the results are extracted before the cases are run.
MainNoArgs_ResultsFirst ==
    /\ pc = "main"
    /\ ~(Len(argv) > 1)
    /\ DispatchNewDir(<<"generate_su2_config", "get_su2_results", "run_SU2_multi">>)
    /\ UNCHANGED <<args, config_path, listing, dirFiles, locals, soft, exc,
                   cfgFiles, cfgFiles0, cwd, retval, trace>>

MainNoArgs ==
    /\ pc = "main"
    /\ ~(Len(argv) > 1)
    /\ DispatchNewDir(<<"generate_su2_config", "run_SU2_multi", "get_su2_results">>)
    /\ UNCHANGED <<args, config_path, listing, dirFiles, locals, soft, exc,
                   cfgFiles, cfgFiles0, cwd, retval, trace>>

MainOptC ==
    /\ pc = "main"
    /\ Len(argv) > 1
    /\ Arg(1) = OptC
    /\ DispatchNewDir(<<"generate_su2_config">>)
    /\ UNCHANGED <<args, config_path, listing, dirFiles, locals, soft, exc,
                   cfgFiles, cfgFiles0, cwd, retval, trace>>

MainOptS ==
    /\ pc = "main"
    /\ Len(argv) > 1
    /\ Arg(1) = OptS
    /\ DispatchWithDir("run_SU2_single")
    /\ UNCHANGED <<args, tree, locals, soft, cfgFiles, cfgFiles0, cwd, retval,
                   trace>>

MainOptM ==
    /\ pc = "main"
    /\ Len(argv) > 1
    /\ Arg(1) = OptM
    /\ DispatchWithDir("run_SU2_multi")
    /\ UNCHANGED <<args, tree, locals, soft, cfgFiles, cfgFiles0, cwd, retval,
                   trace>>

MainOptF ==
    /\ pc = "main"
    /\ Len(argv) > 1
    /\ Arg(1) = OptF
    /\ DispatchWithDir("run_SU2_fsi")
    /\ UNCHANGED <<args, tree, locals, soft, cfgFiles, cfgFiles0, cwd, retval,
                   trace>>

MainOptR ==
    /\ pc = "main"
    /\ Len(argv) > 1
    /\ Arg(1) = OptR
    /\ DispatchWithDir("get_su2_results")
    /\ UNCHANGED <<args, tree, locals, soft, cfgFiles, cfgFiles0, cwd, retval,
                   trace>>

\* print('This arugment is not a valid option!')
MainInvalid ==
    /\ pc = "main"
    /\ Len(argv) > 1
    /\ Arg(1) \notin {OptC, OptS, OptM, OptF, OptR}
    /\ todo' = << >>
    /\ pc' = "main_next"
    /\ UNCHANGED <<args, params, tree, locals, soft, exc, cfgFiles, cfgFiles0,
                   cwd, retval, trace>>

\* generate_su2_config(cpacs_path, cpacs_out_path, wkdir) fills the working
\* directory with some folder structure and returns.
MainCallGenerate ==
    /\ pc = "main_next"
    /\ todo # << >>
    /\ Head(todo) = "generate_su2_config"
    /\ \E t \in Trees :
          /\ listing' = t.listing
          /\ dirFiles' = t.files
    /\ trace' = trace \o <<Ev("call", "generate_su2_config", NoPath, wkdir),
                           Ev("return", "generate_su2_config", NoPath, wkdir)>>
    /\ todo' = Tail(todo)
    /\ UNCHANGED <<args, params, exists, locals, soft, pc, exc, cfgFiles,
                   cfgFiles0, cwd, retval>>

\* get_su2_results(cpacs_path, cpacs_out_path, wkdir)
MainCallResults ==
    /\ pc = "main_next"
    /\ todo # << >>
    /\ Head(todo) = "get_su2_results"
    /\ trace' = trace \o <<Ev("call", "get_su2_results", NoPath, wkdir),
                           Ev("return", "get_su2_results", NoPath, wkdir)>>
    /\ todo' = Tail(todo)
    /\ UNCHANGED <<args, params, tree, locals, soft, pc, exc, cfgFiles,
                   cfgFiles0, cwd, retval>>

EnterFunction(fn, at) ==
    /\ todo # << >>
    /\ Head(todo) = fn
    /\ trace' = Append(trace, Ev("call", fn, config_path, wkdir))
    /\ todo' = Tail(todo)
    /\ pc' = at
    /\ UNCHANGED <<args, params, tree, locals, soft, exc, cfgFiles, cfgFiles0,
                   cwd, retval>>

MainCallSingle ==
    /\ pc = "main_next"
    /\ EnterFunction("run_SU2_single", "single_check")

MainCallMulti ==
    /\ pc = "main_next"
    /\ EnterFunction("run_SU2_multi", "multi_check")

MainCallFsi ==
    /\ pc = "main_next"
    /\ EnterFunction("run_SU2_fsi", "fsi_check")

MainEnd ==
    /\ pc = "main_next"
    /\ todo = << >>
    /\ pc' = "done"
    /\ UNCHANGED <<args, params, tree, locals, soft, exc, todo, cfgFiles,
                   cfgFiles0, cwd, retval, trace>>

Next ==
    \/ MainNoArgs \/ MainOptC \/ MainOptS \/ MainOptM \/ MainOptF \/ MainOptR
    \/ MainInvalid \/ MainCallGenerate \/ MainCallSingle \/ MainCallMulti
    \/ MainCallFsi \/ MainCallResults \/ MainEnd
    \/ SingleCheck \/ SingleRunCFD \/ SingleRunSOL \/ SingleReturn
    \/ MultiCheck \/ MultiList \/ MultiScan \/ MultiRunDEF \/ MultiRunROT
    \/ MultiRunROTSYM \/ MultiRunCFD \/ MultiNext \/ MultiReturn
    \/ FsiCheck \/ FsiWriteDEF \/ FsiWriteCFD \/ FsiRunDEF \/ FsiRunCFD
    \/ FsiRunSOL \/ FsiExtractLoads \/ FsiReturn
    \/ RunSoftReturn

Spec == Init /\ [][Next]_vars

(***************************************************************************)
(* Reading the trace.                                                      *)
(***************************************************************************)
Called(fn) == \E i \in DOMAIN trace : trace[i].ev = "call" /\ trace[i].what = fn

Returned(fn) == \E i \in DOMAIN trace : trace[i].ev = "return" /\ trace[i].what = fn

TheCall(fn) == CHOOSE e \in Range(trace) : e.ev = "call" /\ e.what = fn

IsStart(e) == e.ev = "start"

IsExit(e) == e.ev = "exit"

Starts == SelectSeq(trace, IsStart)

IsPrefix(s, t) == Len(s) <= Len(t) /\ SubSeq(t, 1, Len(s)) = s

Start(software, cfg, wd) == Ev("start", software, cfg, wd)

\* Every executable started before position i of the trace has exited before i.
AllExitedBefore(i) ==
    Cardinality({j \in 1..(i - 1) : IsStart(trace[j])})
        = Cardinality({j \in 1..(i - 1) : IsExit(trace[j])})

\* No executable starts while another one is still running.
OneAtATime == \A i \in DOMAIN trace : IsStart(trace[i]) => AllExitedBefore(i)

Functions == {"run_SU2_single", "run_SU2_multi", "run_SU2_fsi"}

(***************************************************************************)
(* run_SU2_single                                                          *)
(***************************************************************************)
SinglePlan ==
    LET c == TheCall("run_SU2_single")
    IN  <<Start("SU2_CFD", c.cfg, c.wd), Start("SU2_SOL", c.cfg, c.wd)>>

\* C1: when wkdir exists, run_SU2_single starts SU2_CFD and then SU2_SOL, each
\* once, both with the config_path and wkdir it was given; the executables it
\* has started are always the first ones of that list, they are the whole list
\* once it has returned, and none starts before the previous one has exited.
C1_SingleRunsCfdThenSol ==
    (Called("run_SU2_single") /\ exists) =>
        /\ IsPrefix(Starts, SinglePlan)
        /\ Returned("run_SU2_single") => Starts = SinglePlan
        /\ OneAtATime

C1_Witness ==
    /\ Called("run_SU2_single")
    /\ exists
    /\ Returned("run_SU2_single")
    /\ Len(Starts) = 2
    /\ failed

(***************************************************************************)
(* run_SU2_multi: the docstring                                            *)
(***************************************************************************)
\* C2: once run_SU2_multi has returned, every SU2_CFD it started for a case
\* directory is followed by a SU2_SOL started for that same case directory.
C2_MultiRunsCfdThenSol ==
    Returned("run_SU2_multi") =>
        \A i \in DOMAIN trace :
            (IsStart(trace[i]) /\ trace[i].what = "SU2_CFD") =>
                \E j \in DOMAIN trace :
                    /\ j > i
                    /\ IsStart(trace[j])
                    /\ trace[j].what = "SU2_SOL"
                    /\ trace[j].wd = trace[i].wd

(***************************************************************************)
(* run_SU2_fsi: the order of the steps                                     *)
(***************************************************************************)
FsiPlan ==
    LET c == TheCall("run_SU2_fsi")
        def == JoinFile(c.wd, DEF_CFG)
        cfd == JoinFile(c.wd, CFD_CFG)
    IN  <<Ev("write", DEF_CFG, def, c.wd),
          Ev("write", CFD_CFG, cfd, c.wd),
          Start("SU2_DEF", def, c.wd),
          Start("SU2_CFD", cfd, c.wd),
          Start("SU2_SOL", cfd, c.wd),
          Ev("call", "extract_loads", NoPath, c.wd)>>

IsFsiStep(e) ==
    \/ e.ev \in {"write", "start"}
    \/ e.ev = "call" /\ e.what = "extract_loads"

\* C3: when wkdir exists, the steps run_SU2_fsi has taken are always the first
\* ones of: write ConfigDEF.cfg, write ConfigCFD.cfg, SU2_DEF on
\* wkdir/ConfigDEF.cfg, SU2_CFD on wkdir/ConfigCFD.cfg, SU2_SOL on
\* wkdir/ConfigCFD.cfg, extract_loads(wkdir); they are all of them, each once,
\* when it has returned; no executable starts before the previous one has
\* exited, and extract_loads is called only after SU2_SOL has exited.
C3_FsiStepsInOrder ==
    (Called("run_SU2_fsi") /\ exists) =>
        /\ IsPrefix(SelectSeq(trace, IsFsiStep), FsiPlan)
        /\ Returned("run_SU2_fsi") => SelectSeq(trace, IsFsiStep) = FsiPlan
        /\ OneAtATime
        /\ \A i \in DOMAIN trace :
              (trace[i].ev = "call" /\ trace[i].what = "extract_loads") =>
                  AllExitedBefore(i)

C3_Witness ==
    /\ Called("run_SU2_fsi")
    /\ exists
    /\ Returned("run_SU2_fsi")
    /\ Len(SelectSeq(trace, IsFsiStep)) = 6

(***************************************************************************)
(* Exit statuses                                                           *)
(***************************************************************************)
\* C4: the exit status of every executable is forwarded: a function that has
\* returned normally ran no executable that failed, and no executable is
\* started after one has exited with a non-zero status.
C4_ExitStatusForwarded ==
    /\ (\E fn \in Functions : Returned(fn)) => ~failed
    /\ pc = "run_soft" => ~failed

(***************************************************************************)
(* Precondition failures                                                   *)
(***************************************************************************)
NoSideEffect ==
    /\ cwd = StartDir
    /\ cfgFiles = cfgFiles0
    /\ \A i \in DOMAIN trace : trace[i].ev \notin {"start", "write"}

CheckPc(fn) ==
    CASE fn = "run_SU2_single" -> "single_check"
      [] fn = "run_SU2_multi" -> "multi_check"
      [] fn = "run_SU2_fsi" -> "fsi_check"

NoCaseEntry == \A i \in DOMAIN listing : ~Contains(CaseMarker, listing[i])

\* C5: called with a wkdir that does not exist, each of the three functions
\* goes no further than its check, ends in OSError, and has then neither
\* changed the current directory, nor written a config file, nor started an
\* executable; called with a wkdir that holds no entry whose name contains
\* 'Case', run_SU2_multi ends in OSError without having started an executable.
C5_PreconditionFailures ==
    /\ \A fn \in Functions :
          (Called(fn) /\ ~exists) =>
              /\ NoSideEffect
              /\ pc \in {CheckPc(fn), "raised"}
              /\ pc = "raised" => exc = "OSError"
    /\ (Called("run_SU2_multi") /\ exists /\ NoCaseEntry) =>
              /\ Starts = << >>
              /\ pc \in {"multi_check", "multi_list", "raised"}
              /\ pc = "raised" => exc = "OSError"

C5_Witness ==
    /\ Called("run_SU2_fsi")
    /\ ~exists
    /\ pc = "raised"
    /\ exc = "OSError"

(***************************************************************************)
(* The command-line entry point                                            *)
(***************************************************************************)
PhaseNames ==
    {"generate_su2_config", "run_SU2_single", "run_SU2_multi", "run_SU2_fsi",
     "get_su2_results"}

IsPhaseCall(e) == e.ev = "call" /\ e.what \in PhaseNames

Phases ==
    LET calls == SelectSeq(trace, IsPhaseCall)
    IN  [i \in 1..Len(calls) |-> calls[i].what]

ExpectedPhases ==
    IF Len(argv) <= 1
    THEN <<"generate_su2_config", "run_SU2_multi", "get_su2_results">>
    ELSE CASE Arg(1) = OptC -> <<"generate_su2_config">>
           [] Arg(1) = OptS -> <<"run_SU2_single">>
           [] Arg(1) = OptM -> <<"run_SU2_multi">>
           [] Arg(1) = OptF -> <<"run_SU2_fsi">>
           [] Arg(1) = OptR -> <<"get_su2_results">>
           [] OTHER -> << >>

\* C6: the phases the entry point has called are always the first ones of the
\* list its first argument selects (no argument: generate_su2_config,
\* run_SU2_multi, get_su2_results; -c, -s, -m, -f, -r: the one phase; anything
\* else: none), they are the whole list when the script ends normally, all are
\* called on the same wkdir, and get_su2_results after run_SU2_multi is called
\* only once run_SU2_multi has returned.
C6_EntryPointPhases ==
    entry = "__main__" =>
        /\ IsPrefix(Phases, ExpectedPhases)
        /\ pc = "done" => Phases = ExpectedPhases
        /\ \A i \in DOMAIN trace : IsPhaseCall(trace[i]) => trace[i].wd = wkdir
        /\ \A i \in DOMAIN trace :
              (trace[i].ev = "call" /\ trace[i].what = "get_su2_results"
                    /\ Called("run_SU2_multi")) =>
                  \E j \in 1..(i - 1) :
                      trace[j].ev = "return" /\ trace[j].what = "run_SU2_multi"

C6_Witness ==
    /\ entry = "__main__"
    /\ Len(argv) = 1
    /\ pc = "done"
    /\ Len(Phases) = 3

(***************************************************************************)
(* run_SU2_multi: the case directories                                     *)
(***************************************************************************)
CaseDirs == SelectSeq(listing, IsCaseDir)

DirOf(d) == JoinDir(TheCall("run_SU2_multi").wd, d)

PlanNames == <<DEF_CFG, ROT_CFG, ROT_SYM_CFG, CFD_CFG>>

SoftFor(n) == IF n = CFD_CFG THEN "SU2_CFD" ELSE "SU2_DEF"

\* What is run for one case directory: SU2_DEF for the DEF configs it holds,
\* in the fixed order, then SU2_CFD if it holds ConfigCFD.cfg.
CasePlan(d) ==
    LET Present(n) == n \in dirFiles[d]
        names == SelectSeq(PlanNames, Present)
    IN  [i \in 1..Len(names) |->
            Start(SoftFor(names[i]), JoinFile(DirOf(d), names[i]), DirOf(d))]

RECURSIVE MultiPlan(_)
MultiPlan(cases) ==
    IF cases = << >>
    THEN << >>
    ELSE CasePlan(Head(cases)) \o
         (IF CFD_CFG \in dirFiles[Head(cases)] THEN MultiPlan(Tail(cases)) ELSE << >>)

CfdStartsFor(d) ==
    {i \in DOMAIN trace :
        IsStart(trace[i]) /\ trace[i].what = "SU2_CFD" /\ trace[i].wd = DirOf(d)}

\* C7 as stated: when run_SU2_multi has ended, every entry of wkdir whose name
\* contains 'Case' and that holds ConfigCFD.cfg has had its one SU2_CFD run.
C7_EveryCaseProcessedOnce ==
    (Called("run_SU2_multi") /\ exists /\ (Returned("run_SU2_multi") \/ pc = "raised")) =>
        \A i \in DOMAIN CaseDirs :
            CFD_CFG \in dirFiles[CaseDirs[i]] => Cardinality(CfdStartsFor(CaseDirs[i])) = 1

\* C7 amended: the executables run_SU2_multi has started are always the first
\* ones of the list made, for the entries whose name contains 'Case' in listing
\* order and up to the first one without ConfigCFD.cfg, of SU2_DEF on
\* ConfigDEF.cfg, ConfigDEF_rot.cfg, ConfigDEF_rot_sym.cfg (those present, in
\* that order) and then SU2_CFD on ConfigCFD.cfg, each with the case's own
\* directory and paths; when it has returned normally they are the whole list
\* and every such entry has been processed exactly once; no executable starts
\* before the previous one has exited.
C7_MultiCasesInOrder ==
    (Called("run_SU2_multi") /\ exists) =>
        /\ IsPrefix(Starts, MultiPlan(CaseDirs))
        /\ Returned("run_SU2_multi") =>
              /\ Starts = MultiPlan(CaseDirs)
              /\ \A i \in DOMAIN CaseDirs : Cardinality(CfdStartsFor(CaseDirs[i])) = 1
        /\ OneAtATime

C7_Witness ==
    /\ Called("run_SU2_multi")
    /\ Returned("run_SU2_multi")
    /\ Len(CaseDirs) = 2
    /\ Len(listing) > Len(CaseDirs) - 1
    /\ \E i \in DOMAIN CaseDirs : ConfigNames \subseteq dirFiles[CaseDirs[i]]

(***************************************************************************)
(* run_SU2_fsi: the two configuration files                                *)
(***************************************************************************)
DVKeys == {"DV_KIND", "DV_MARKER", "DV_FILENAME", "DV_PARAM", "DV_VALUE"}

DVText ==
    [k \in DVKeys |->
        CASE k = "DV_KIND" -> <<"SURFACE_FILE">>
          [] k = "DV_MARKER" -> <<"Wing">>
          [] k = "DV_FILENAME" -> <<"disp.dat">>
          [] k = "DV_PARAM" -> <<"WING", "0", "0", "1", "0.0", "0.0", "1.0">>
          [] k = "DV_VALUE" -> <<"0.01">>]

\* C8: once run_SU2_fsi has written both files, ConfigDEF.cfg holds the
\* configuration that config_path held when the function was called with
\* exactly the five DV_* keys overridden, and ConfigCFD.cfg holds that
\* configuration with exactly MESH_FILENAME set to mesh_out.su2.
C8_FsiConfigFrame ==
    (Called("run_SU2_fsi") /\ exists
        /\ pc \notin {"fsi_check", "fsi_write_def", "fsi_write_cfd"}) =>
        LET c == TheCall("run_SU2_fsi")
            orig == cfgFiles0[c.cfg].kv
            def == cfgFiles[JoinFile(c.wd, DEF_CFG)]
            cfd == cfgFiles[JoinFile(c.wd, CFD_CFG)]
        IN  /\ def.present
            /\ DOMAIN def.kv = (DOMAIN orig) \cup DVKeys
            /\ \A k \in DOMAIN def.kv :
                  def.kv[k] = IF k \in DVKeys THEN DVText[k] ELSE orig[k]
            /\ cfd.present
            /\ DOMAIN cfd.kv = (DOMAIN orig) \cup {"MESH_FILENAME"}
            /\ \A k \in DOMAIN cfd.kv :
                  cfd.kv[k] = IF k = "MESH_FILENAME" THEN <<"mesh_out.su2">> ELSE orig[k]

(***************************************************************************)
(* run_SU2_multi: a case directory without ConfigCFD.cfg                   *)
(***************************************************************************)
HasBadCase == \E k \in DOMAIN CaseDirs : CFD_CFG \notin dirFiles[CaseDirs[k]]

FirstBadCase ==
    CHOOSE k \in DOMAIN CaseDirs :
        /\ CFD_CFG \notin dirFiles[CaseDirs[k]]
        /\ \A j \in 1..(k - 1) : CFD_CFG \in dirFiles[CaseDirs[j]]

\* C9: when a case directory holds no ConfigCFD.cfg, run_SU2_multi never
\* returns normally and ends in ValueError; SU2_CFD is never started for the
\* first such directory and no executable is started for a case directory
\* after it; when the error is raised, SU2_DEF has been started for each DEF
\* config that directory holds and the SU2_CFD runs of the earlier case
\* directories remain done.
C9_MissingCfdConfig ==
    (Called("run_SU2_multi") /\ exists /\ HasBadCase) =>
        LET k == FirstBadCase
            bad == DirOf(CaseDirs[k])
        IN  /\ ~Returned("run_SU2_multi")
            /\ pc = "raised" => exc = "ValueError"
            /\ \A i \in DOMAIN trace :
                  IsStart(trace[i]) =>
                      /\ ~(trace[i].what = "SU2_CFD" /\ trace[i].wd = bad)
                      /\ \A j \in (k + 1)..Len(CaseDirs) : trace[i].wd # DirOf(CaseDirs[j])
            /\ exc = "ValueError" =>
                  /\ \A n \in {DEF_CFG, ROT_CFG, ROT_SYM_CFG} \cap dirFiles[CaseDirs[k]] :
                        \E i \in DOMAIN trace :
                            trace[i] = Start("SU2_DEF", JoinFile(bad, n), bad)
                  /\ \A j \in 1..(k - 1) : Cardinality(CfdStartsFor(CaseDirs[j])) = 1

C9_Witness ==
    /\ Called("run_SU2_multi")
    /\ exc = "ValueError"
    /\ HasBadCase
    /\ FirstBadCase = 2
    /\ DEF_CFG \in dirFiles[CaseDirs[2]]

====
